---- MODULE Spec2Model ----
(***************************************************************************)
(* Battlefield simulation of src/nidanidewodawode.py.                      *)
(*                                                                         *)
(* Reals are fixed-point integers with three decimals: 1.0 is One = 1000,  *)
(* so a power of 0.1 is 100, a coordinate of 10 is 10000 and the decay     *)
(* 0.005 is 5.  Every constant of the program is a multiple of 0.001, so   *)
(* sums, differences, max, clip and the comparisons of the program are     *)
(* exact; only normalisation (a square root) and the product               *)
(* vector * speed_factor are rounded down to the next 0.001.               *)
(* A call of np.random.uniform(low, high) is an input f in 0..999, the     *)
(* point low + (high - low) * f / 1000 of the half-open interval.          *)
(***************************************************************************)
EXTENDS Integers, Sequences, FiniteSets

VARIABLES
    agents,                 \* Battlefield.agents: sequence of agent records
    time_step_count,        \* Battlefield.time_step_count
    aggression_threshold,   \* module global aggression_threshold
    tick_agents,            \* history: agents at the start of the last time_step()
    tick_threshold,         \* history: aggression_threshold during the last time_step()
    tick_draws,             \* history: the random draws of the last time_step()
    visible_foes,           \* history: per agent, ids of the local visible_foes
    threat_level,           \* history: per agent, the local threat_level (as a fraction)
    completed_calls,        \* history: number of time_step() calls that returned
    relations,              \* DynamicsEngine.system.graph: edge |-> Relation
    prior_relations         \* history: relations before the last update_relations()

vars == <<agents, time_step_count, aggression_threshold, tick_agents,
          tick_threshold, tick_draws, visible_foes, threat_level, completed_calls,
          relations, prior_relations>>

----------------------------------------------------------------------------
(* Bounds of the model *)

MaxAgents == 2
MaxTicks == 2

\* the three-agent battlefields on which the vector policies are checked
SquadSize == 3
SquadTicks == 1

\* the value after which the counters of an unbounded run start again
LiveCountCap == 2

\* the objects of the System a DynamicsEngine runs on
EngineObjects == 2

----------------------------------------------------------------------------
(* Constants of the program, in thousandths *)

One == 1000
InitialThreshold == 1000
chaos_factor == 300
PowerFloor == 100
DecayAttack == 20
DecayRetreat == 15
DecayManeuver == 5
SpeedAttack == 350
SpeedRetreat == 300
SpeedManeuver == 250
MoveJitter == 50
ArenaMin == 0
ArenaMax == 10000
EquilibriumFloor == 10000
EquilibriumBonus == 30
DetectionRadius == 3000

\* DynamicsEngine (thousandths)
chaos_coeff == 3700
DependenceLevel == 900
ActiveLevel == 100

----------------------------------------------------------------------------
(* Arithmetic helpers *)

Max(a, b) == IF a >= b THEN a ELSE b
Min(a, b) == IF a <= b THEN a ELSE b

\* np.random.uniform(low, high) for the draw f in 0..One-1
Uniform(f, low, high) == low + ((high - low) * f) \div One

Uniform2(f, low, high) == <<Uniform(f[1], low, high), Uniform(f[2], low, high)>>

VecAdd(a, b) == <<a[1] + b[1], a[2] + b[2]>>
VecSub(a, b) == <<a[1] - b[1], a[2] - b[2]>>

\* squared Euclidean length, in units of 10^-6
Norm2(d) == d[1] * d[1] + d[2] * d[2]

\* binary search for the floor of the square root of n between lo and hi
SqrtSearch(n, lo, hi) ==
    LET search[b \in (0..46340) \X (0..46340)] ==
            IF b[1] >= b[2] THEN b[1]
            ELSE LET mid == (b[1] + b[2] + 1) \div 2
                 IN  IF mid * mid <= n THEN search[<<mid, b[2]>>]
                                       ELSE search[<<b[1], mid - 1>>]
    IN  search[<<lo, hi>>]

\* floor of the square root
ISqrt(n) == IF n = 0 THEN 0 ELSE SqrtSearch(n, 1, Min(n, 46340))

\* np.linalg.norm of a vector given in thousandths, in thousandths
Norm(d) == ISqrt(Norm2(d))

\* mutant: a zero-length direction replaced by the unit vector of the first axis
NormalizeDefaultAxis(d) ==
    LET norm == Norm(d)
    IN  IF norm = 0 THEN <<One, 0>>
        ELSE <<(d[1] * One) \div norm, (d[2] * One) \div norm>>

\* direction / norm with "if norm == 0: norm = 1"
Normalize(d) ==
    LET norm == Norm(d)
    IN  IF norm = 0 THEN d
        ELSE <<(d[1] * One) \div norm, (d[2] * One) \div norm>>

RECURSIVE SumPower(_)
SumPower(s) == IF s = <<>> THEN 0 ELSE Head(s).power + SumPower(Tail(s))

RECURSIVE SumPosition(_)
SumPosition(s) ==
    IF s = <<>> THEN <<0, 0>> ELSE VecAdd(Head(s).position, SumPosition(Tail(s)))

----------------------------------------------------------------------------
(* StrategicAgent *)

\* The random inputs one agent consumes in one turn: the base direction of the
\* defensive pattern, the policy jitter and the movement jitter.
Draws ==
    { [dir |-> <<500, 500>>, jit |-> <<500, 500>>, move |-> <<500, 500>>],
      [dir |-> <<999, 500>>, jit |-> <<999, 0>>,   move |-> <<999, 999>>],
      [dir |-> <<0, 0>>,     jit |-> <<0, 999>>,   move |-> <<0, 0>>] }

\* StrategicAgent.__init__ with the draws of power and position given
StrategicAgent(agent_id, power, position) ==
    [agent_id |-> agent_id, power |-> power, position |-> position,
     status |-> "maneuver", vector |-> <<0, 0>>]

\* mutant: the defensive pattern with the full chaos factor as jitter bound
GenerateDefensivePatternFullChaos(draw) ==
    LET direction == Uniform2(draw.dir, -One, One)
        random_jitter == Uniform2(draw.jit, -chaos_factor, chaos_factor)
    IN  VecAdd(Normalize(direction), random_jitter)

GenerateDefensivePattern(draw) ==
    LET direction == Uniform2(draw.dir, -One, One)
        random_jitter == Uniform2(draw.jit, -(chaos_factor \div 2), chaos_factor \div 2)
    IN  VecAdd(Normalize(direction), random_jitter)

\* mutant: max in place of min
RECURSIVE Strongest(_)
Strongest(opponents) ==
    IF Len(opponents) = 1 THEN Head(opponents)
    ELSE LET rest == Strongest(Tail(opponents))
         IN  IF Head(opponents).power >= rest.power THEN Head(opponents) ELSE rest

\* min(opponents, key=power): the first opponent of minimal power
RECURSIVE Weakest(_)
Weakest(opponents) ==
    IF Len(opponents) = 1 THEN Head(opponents)
    ELSE LET rest == Weakest(Tail(opponents))
         IN  IF Head(opponents).power <= rest.power THEN Head(opponents) ELSE rest

CalculateBestAttackVector(self, opponents, draw) ==
    IF opponents = <<>> THEN GenerateDefensivePattern(draw)
    ELSE LET weakest == Weakest(opponents)
             direction == VecSub(weakest.position, self.position)
             random_jitter == Uniform2(draw.jit, -chaos_factor, chaos_factor)
         IN  VecAdd(Normalize(direction), random_jitter)

\* np.mean(positions, axis=0)
ThreatCenter(opponents) ==
    LET total == SumPosition(opponents)
    IN  <<total[1] \div Len(opponents), total[2] \div Len(opponents)>>

\* mutant: the direction taken from the agent to the threat centre
FindSafestEscapeRouteToward(self, opponents, draw) ==
    IF opponents = <<>> THEN GenerateDefensivePattern(draw)
    ELSE LET direction == VecSub(ThreatCenter(opponents), self.position)
             random_jitter == Uniform2(draw.jit, -chaos_factor, chaos_factor)
         IN  VecAdd(Normalize(direction), random_jitter)

\* self.position - np.mean(rival positions), normalised, plus jitter
FindSafestEscapeRoute(self, opponents, draw) ==
    IF opponents = <<>> THEN GenerateDefensivePattern(draw)
    ELSE LET direction == VecSub(self.position, ThreatCenter(opponents))
             random_jitter == Uniform2(draw.jit, -chaos_factor, chaos_factor)
         IN  VecAdd(Normalize(direction), random_jitter)

\* threat_level = sum(op.power) / self.power, kept as a fraction
ThreatLevel(self, opponents) ==
    [computed |-> TRUE, rivals |-> SumPower(opponents), own |-> self.power]

NoThreatLevel == [computed |-> FALSE, rivals |-> 0, own |-> 0]

\* mutant: the upper end of the MANEUVER band excluded
StanceForStrictUpper(threat, threshold) ==
    IF threat.rivals * One < threshold * threat.own
    THEN "attack"
    ELSE IF /\ threshold * threat.own <= threat.rivals * One
            /\ threat.rivals * One * 10 < 14 * threshold * threat.own
         THEN "maneuver"
         ELSE "retreat"

\* mutant: the upper end of the MANEUVER band not scaled by the threshold
StanceForUnscaledUpper(threat, threshold) ==
    IF threat.rivals * One < threshold * threat.own
    THEN "attack"
    ELSE IF /\ threshold * threat.own <= threat.rivals * One
            /\ threat.rivals * 10 <= 14 * threat.own
         THEN "maneuver"
         ELSE "retreat"

\* mutant: the threshold captured when the module was loaded
StanceForInitialThreshold(threat, threshold) ==
    IF threat.rivals * One < InitialThreshold * threat.own
    THEN "attack"
    ELSE IF /\ InitialThreshold * threat.own <= threat.rivals * One
            /\ threat.rivals * One * 10 <= 14 * InitialThreshold * threat.own
         THEN "maneuver"
         ELSE "retreat"

\* the if / elif / else on threat_level:
\*   rivals/own < 1.0 * t   and   1.0 * t <= rivals/own <= 1.4 * t
StanceFor(threat, threshold) ==
    IF threat.rivals * One < threshold * threat.own
    THEN "attack"
    ELSE IF /\ threshold * threat.own <= threat.rivals * One
            /\ threat.rivals * One * 10 <= 14 * threshold * threat.own
         THEN "maneuver"
         ELSE "retreat"

VectorFor(status, self, opponents, draw) ==
    CASE status = "attack"  -> CalculateBestAttackVector(self, opponents, draw)
      [] status = "retreat" -> FindSafestEscapeRoute(self, opponents, draw)
      [] OTHER              -> GenerateDefensivePattern(draw)

\* mutant: the branch without rivals leaves the status as it was
DecideKeepsStatus(self, opponents, draw, threshold) ==
    IF opponents # <<>>
    THEN LET threat == ThreatLevel(self, opponents)
             status == StanceFor(threat, threshold)
         IN  [status |-> status,
              vector |-> VectorFor(status, self, opponents, draw),
              threat_level |-> threat]
    ELSE [status |-> self.status,
          vector |-> GenerateDefensivePattern(draw),
          threat_level |-> NoThreatLevel]

\* StrategicAgent.decide: the new status and vector (and the local threat_level)
Decide(self, opponents, draw, threshold) ==
    IF opponents # <<>>
    THEN LET threat == ThreatLevel(self, opponents)
             status == StanceFor(threat, threshold)
         IN  [status |-> status,
              vector |-> VectorFor(status, self, opponents, draw),
              threat_level |-> threat]
    ELSE [status |-> "maneuver",
          vector |-> GenerateDefensivePattern(draw),
          threat_level |-> NoThreatLevel]

----------------------------------------------------------------------------
(* Battlefield *)

\* mutant: the radius itself counted as in range
DetectInRadiusInclusive(ags, agent, radius) ==
    LET InRange(other) ==
            /\ other.agent_id # agent.agent_id
            /\ Norm2(VecSub(other.position, agent.position)) <= radius * radius
    IN  SelectSeq(ags, InRange)

DetectInRadius(ags, agent, radius) ==
    LET InRange(other) ==
            /\ other.agent_id # agent.agent_id
            /\ Norm(VecSub(other.position, agent.position)) < radius
    IN  SelectSeq(ags, InRange)

\* np.clip(x, 0, 10)
Clip(x) == Max(ArenaMin, Min(x, ArenaMax))

SpeedFactor(status) ==
    IF status = "attack" THEN SpeedAttack
    ELSE IF status = "retreat" THEN SpeedRetreat
    ELSE SpeedManeuver

\* position + vector * speed_factor + chaotic_movement, before the clip
RawMove(agent, vector, draw) ==
    LET speed_factor == SpeedFactor(agent.status)
        chaotic_movement == Uniform2(draw.move, -MoveJitter, MoveJitter)
    IN  <<agent.position[1] + (vector[1] * speed_factor) \div One + chaotic_movement[1],
          agent.position[2] + (vector[2] * speed_factor) \div One + chaotic_movement[2]>>

\* mutant: only the upper bound of the box enforced
ClipPositionUpperOnly(p) == <<Min(p[1], ArenaMax), Min(p[2], ArenaMax)>>

ClipPosition(p) == <<Clip(p[1]), Clip(p[2])>>

ExecuteAction(agent, vector, draw) ==
    [agent EXCEPT !.position = ClipPosition(RawMove(agent, vector, draw))]

\* mutant: no decay while manoeuvring
DecayNoneInManeuver(status) ==
    IF status = "attack" THEN DecayAttack
    ELSE IF status = "retreat" THEN DecayRetreat
    ELSE 0

\* mutant: the decays of ATTACK and RETREAT exchanged
DecaySwapped(status) ==
    IF status = "attack" THEN DecayRetreat
    ELSE IF status = "retreat" THEN DecayAttack
    ELSE DecayManeuver

Decay(status) ==
    IF status = "attack" THEN DecayAttack
    ELSE IF status = "retreat" THEN DecayRetreat
    ELSE DecayManeuver

\* mutant: the decay without the floor
DecayedPowerNoFloor(power, status) == power - Decay(status)

DecayedPower(power, status) == Max(PowerFloor, power - Decay(status))

UpdatePowerDynamics(agent) ==
    [agent EXCEPT !.power = DecayedPower(agent.power, agent.status)]

\* mutant: "agent.power = 0.03" in place of "+="
GrantBonusAssigned(ags) ==
    [i \in 1..Len(ags) |-> [ags[i] EXCEPT !.power = EquilibriumBonus]]

\* "for agent in self.agents: agent.power += 0.03"
GrantBonus(ags) ==
    [i \in 1..Len(ags) |-> [ags[i] EXCEPT !.power = @ + EquilibriumBonus]]

RebalanceStrategicEquilibrium(ags) ==
    IF SumPower(ags) < EquilibriumFloor THEN GrantBonus(ags) ELSE ags

Ids(s) == [k \in 1..Len(s) |-> s[k].agent_id]

\* a run of the loop of time_step: the agents, and per finished turn the
\* locals visible_foes and threat_level
StartRun(ags) == [agents |-> ags, visible_foes |-> <<>>, threat_level |-> <<>>]

\* the body of the loop of time_step for the agent at index i
AgentTurn(run, i, draw, threshold) ==
    LET agent == run.agents[i]
        visible == DetectInRadius(run.agents, agent, DetectionRadius)
        decision == Decide(agent, visible, draw, threshold)
        decided == [agent EXCEPT !.status = decision.status, !.vector = decision.vector]
        moved == ExecuteAction(decided, decision.vector, draw)
    IN  [agents |-> [run.agents EXCEPT ![i] = UpdatePowerDynamics(moved)],
         visible_foes |-> Append(run.visible_foes, Ids(visible)),
         threat_level |-> Append(run.threat_level, decision.threat_level)]

\* "for agent in self.agents": the turns i, i+1, ... in order
RECURSIVE AgentLoop(_, _, _, _)
AgentLoop(run, i, draws, threshold) ==
    IF i > Len(run.agents) THEN run
    ELSE AgentLoop(AgentTurn(run, i, draws[i], threshold), i + 1, draws, threshold)

\* mutant: the counter advanced twice per tick
NextCountTwice(count) == count + 2

NextCount(count) == count + 1

----------------------------------------------------------------------------
(* Initial states: a constructed Battlefield *)

\* Powers: the floor, values of the constructor's range [0.5, 1.5), and the
\* values at which so small a population has a total power around 10.
PowerInit == {100, 500, 700, 5000, 10000}

\* Positions: np.random.rand(2) * 10 lies in [0, 10) x [0, 10)
PositionInit == {<<0, 0>>, <<1000, 0>>, <<3000, 0>>, <<9999, 9999>>}

ThresholdValues == {500, 1000, 2000}

\* Battlefield._deploy_forces: ids 0 .. num_agents-1 in order
DeployForces(num_agents, powers, positions) ==
    [i \in 1..num_agents |-> StrategicAgent(i - 1, powers[i], positions[i])]

Init ==
    \E num_agents \in 0..MaxAgents :
    \E powers \in [1..num_agents -> PowerInit] :
    \E positions \in [1..num_agents -> PositionInit] :
        /\ agents = DeployForces(num_agents, powers, positions)
        /\ time_step_count = 0
        /\ aggression_threshold = InitialThreshold
        /\ tick_agents = agents
        /\ tick_threshold = aggression_threshold
        /\ tick_draws = <<>>
        /\ visible_foes = [i \in 1..num_agents |-> <<>>]
        /\ threat_level = [i \in 1..num_agents |-> NoThreatLevel]
        /\ completed_calls = 0
        /\ relations = <<>>
        /\ prior_relations = <<>>

----------------------------------------------------------------------------
(* Operations *)

\* mutant: a turn that detects and decides on the agents as they stood at the
\* start of the tick
SnapshotTurn(start, run, i, draw, threshold) ==
    LET agent == run.agents[i]
        visible == DetectInRadius(start, agent, DetectionRadius)
        decision == Decide(agent, visible, draw, threshold)
        decided == [agent EXCEPT !.status = decision.status, !.vector = decision.vector]
        moved == ExecuteAction(decided, decision.vector, draw)
    IN  [agents |-> [run.agents EXCEPT ![i] = UpdatePowerDynamics(moved)],
         visible_foes |-> Append(run.visible_foes, Ids(visible)),
         threat_level |-> Append(run.threat_level, decision.threat_level)]

RECURSIVE SnapshotLoop(_, _, _, _, _)
SnapshotLoop(start, run, i, draws, threshold) ==
    IF i > Len(run.agents) THEN run
    ELSE SnapshotLoop(start, SnapshotTurn(start, run, i, draws[i], threshold),
                      i + 1, draws, threshold)

\* mutant: time_step on a snapshot taken at the start of the tick
TimeStepOnSnapshot ==
    /\ time_step_count < MaxTicks
    /\ \E draws \in [1..Len(agents) -> Draws] :
       \E run \in {SnapshotLoop(agents, StartRun(agents), 1, draws, aggression_threshold)} :
            /\ agents' = RebalanceStrategicEquilibrium(run.agents)
            /\ time_step_count' = NextCount(time_step_count)
            /\ tick_agents' = agents
            /\ tick_threshold' = aggression_threshold
            /\ tick_draws' = draws
            /\ visible_foes' = run.visible_foes
            /\ threat_level' = run.threat_level
            /\ completed_calls' = completed_calls + 1
    /\ UNCHANGED <<aggression_threshold, relations, prior_relations>>

\* mutant: time_step that decides the correction on the total power of the
\* start of the tick
TimeStepRebalanceOnStartSum ==
    /\ time_step_count < MaxTicks
    /\ \E draws \in [1..Len(agents) -> Draws] :
       \E run \in {AgentLoop(StartRun(agents), 1, draws, aggression_threshold)} :
            /\ agents' = IF SumPower(agents) < EquilibriumFloor
                         THEN GrantBonus(run.agents) ELSE run.agents
            /\ time_step_count' = NextCount(time_step_count)
            /\ tick_agents' = agents
            /\ tick_threshold' = aggression_threshold
            /\ tick_draws' = draws
            /\ visible_foes' = run.visible_foes
            /\ threat_level' = run.threat_level
            /\ completed_calls' = completed_calls + 1
    /\ UNCHANGED <<aggression_threshold, relations, prior_relations>>

\* Battlefield.time_step
TimeStep ==
    /\ time_step_count < MaxTicks
    /\ \E draws \in [1..Len(agents) -> Draws] :
       \E run \in {AgentLoop(StartRun(agents), 1, draws, aggression_threshold)} :
            /\ agents' = RebalanceStrategicEquilibrium(run.agents)
            /\ time_step_count' = NextCount(time_step_count)
            /\ tick_agents' = agents
            /\ tick_threshold' = aggression_threshold
            /\ tick_draws' = draws
            /\ visible_foes' = run.visible_foes
            /\ threat_level' = run.threat_level
            /\ completed_calls' = completed_calls + 1
    /\ UNCHANGED <<aggression_threshold, relations, prior_relations>>

\* update_threshold(val), the slider callback; runs between two ticks
\* (modelled while a further tick can follow)
UpdateThreshold ==
    \E val \in ThresholdValues :
        /\ time_step_count < MaxTicks
        /\ val # aggression_threshold
        /\ aggression_threshold' = val
        /\ UNCHANGED <<agents, time_step_count, tick_agents, tick_threshold,
                       tick_draws, visible_foes, threat_level, completed_calls,
                       relations, prior_relations>>

\* Battlefields of two or three agents in sight of each other, with powers that
\* make one agent attack the other two, ties in power included, and the
\* scenario A (1.0 at (0,0)), B (0.4 at (1,0)).
SquadPowerInit == {400, 500, 1000}

SquadPositionInit == {<<0, 0>>, <<1000, 0>>, <<0, 2000>>}

SquadInit ==
    \E num_agents \in 2..SquadSize :
    \E powers \in [1..num_agents -> SquadPowerInit] :
    \E positions \in [1..num_agents -> SquadPositionInit] :
        /\ agents = DeployForces(num_agents, powers, positions)
        /\ time_step_count = 0
        /\ aggression_threshold = InitialThreshold
        /\ tick_agents = agents
        /\ tick_threshold = aggression_threshold
        /\ tick_draws = <<>>
        /\ visible_foes = [i \in 1..num_agents |-> <<>>]
        /\ threat_level = [i \in 1..num_agents |-> NoThreatLevel]
        /\ completed_calls = 0
        /\ relations = <<>>
        /\ prior_relations = <<>>

\* Battlefield.time_step on a squad
SquadStep == time_step_count < SquadTicks /\ TimeStep

SquadNext == SquadStep

SquadSpec == SquadInit /\ [][SquadNext]_vars

----------------------------------------------------------------------------
(* DynamicsEngine *)

\* DynamicsEngine.logistic_map
LogisticMap(x) == (chaos_coeff * x * (One - x)) \div (One * One)

\* mutant: the type test left out, any relation above the level becomes DEPENDENCE
NewRelationAnyType(relation) ==
    LET new_intensity == Max(0, Min(LogisticMap(relation.intensity), One))
        new_type == IF new_intensity > DependenceLevel
                    THEN "dependence" ELSE relation.type
    IN  [intensity |-> new_intensity, type |-> new_type,
         active |-> new_intensity > ActiveLevel]

\* the body of the first loop of update_relations for one edge
NewRelation(relation) ==
    LET new_intensity == Max(0, Min(LogisticMap(relation.intensity), One))
        new_type == IF relation.type = "antagonism" /\ new_intensity > DependenceLevel
                    THEN "dependence" ELSE relation.type
    IN  [intensity |-> new_intensity, type |-> new_type,
         active |-> new_intensity > ActiveLevel]

\* update_relations: all new relations computed, then all assigned
UpdateRelations(graph) == [e \in DOMAIN graph |-> NewRelation(graph[e])]

ContradictionType == {"antagonism", "dependence", "transformation"}

\* intensities a relation is given when it is added, from 0 to 1
IntensityInit == {0, 100, 300, 500, 1000}

\* main(): a relation for every ordered pair of different objects
Edges == {e \in (1..EngineObjects) \X (1..EngineObjects) : e[1] # e[2]}

EngineInit ==
    /\ \E intensity \in [Edges -> IntensityInit] :
       \E type \in [Edges -> ContradictionType] :
            relations = [e \in Edges |-> [intensity |-> intensity[e],
                                          type |-> type[e],
                                          active |-> intensity[e] > ActiveLevel]]
    /\ prior_relations = relations
    /\ agents = <<>>
    /\ time_step_count = 0
    /\ aggression_threshold = InitialThreshold
    /\ tick_agents = <<>>
    /\ tick_threshold = InitialThreshold
    /\ tick_draws = <<>>
    /\ visible_foes = <<>>
    /\ threat_level = <<>>
    /\ completed_calls = 0

\* DynamicsEngine.tick: update_relations, then focus_main_contradictions, which
\* reads the graph and returns a list
Tick ==
    /\ relations' = UpdateRelations(relations)
    /\ prior_relations' = relations
    /\ UNCHANGED <<agents, time_step_count, aggression_threshold, tick_agents,
                   tick_threshold, tick_draws, visible_foes, threat_level,
                   completed_calls>>

EngineNext == Tick

EngineSpec == EngineInit /\ [][EngineNext]_vars

----------------------------------------------------------------------------
\* A run of unboundedly many ticks.  The two counters count up to LiveCountCap
\* and then go on from 1 (the Python integers grow without bound); the draws
\* are those that leave a vector and a move without random part, agents start
\* on the same spot or out of sight of each other (so that they stay where they
\* are) and powers start around the equilibrium floor.
LivePowerInit == {4990, 5000, 5020}

LivePositionInit == {<<0, 0>>, <<9999, 9999>>}

LiveDraws == {d \in Draws : d.jit = <<500, 500>>}

\* a counter value of the unbounded run
LiveCount(count) == IF count > LiveCountCap THEN 1 ELSE count

LiveInit ==
    \E num_agents \in 0..MaxAgents :
    \E powers \in [1..num_agents -> LivePowerInit] :
    \E positions \in [1..num_agents -> LivePositionInit] :
        /\ agents = DeployForces(num_agents, powers, positions)
        /\ time_step_count = 0
        /\ aggression_threshold = InitialThreshold
        /\ tick_agents = agents
        /\ tick_threshold = aggression_threshold
        /\ tick_draws = <<>>
        /\ visible_foes = [i \in 1..num_agents |-> <<>>]
        /\ threat_level = [i \in 1..num_agents |-> NoThreatLevel]
        /\ completed_calls = 0
        /\ relations = <<>>
        /\ prior_relations = <<>>

\* Battlefield.time_step, called again and again by animate
LiveStep ==
    /\ \E draws \in [1..Len(agents) -> LiveDraws] :
       \E run \in {AgentLoop(StartRun(agents), 1, draws, aggression_threshold)} :
            /\ agents' = RebalanceStrategicEquilibrium(run.agents)
            /\ time_step_count' = LiveCount(NextCount(time_step_count))
            /\ tick_agents' = agents
            /\ tick_threshold' = aggression_threshold
            /\ tick_draws' = draws
            /\ visible_foes' = run.visible_foes
            /\ threat_level' = run.threat_level
            /\ completed_calls' = LiveCount(completed_calls + 1)
    /\ UNCHANGED <<aggression_threshold, relations, prior_relations>>

\* update_threshold(val) at any time between two ticks
LiveUpdateThreshold ==
    \E val \in ThresholdValues :
        /\ val # aggression_threshold
        /\ aggression_threshold' = val
        /\ UNCHANGED <<agents, time_step_count, tick_agents, tick_threshold,
                       tick_draws, visible_foes, threat_level, completed_calls,
                       relations, prior_relations>>

LiveNext == LiveStep \/ LiveUpdateThreshold

\* FuncAnimation calls animate for every frame, without end.  LiveStep is
\* enabled in every state and changes the counters, so that "LiveStep is taken
\* again and again" is the weak fairness WF_vars(LiveStep).
LiveFairness == []<><<LiveStep>>_vars

LiveSpec == LiveInit /\ [][LiveNext]_vars /\ LiveFairness

Next == TimeStep \/ UpdateThreshold

Spec == Init /\ [][Next]_vars

----------------------------------------------------------------------------
(* Vocabulary of the properties.  It is written from the numbers of the     *)
(* documentation, in thousandths, and uses none of the operators above.     *)

N == Len(agents)

AfterTick == completed_calls > 0

\* ATTACK 0.02, RETREAT 0.015, MANEUVER 0.005
StatedDecay(status) ==
    CASE status = "attack"  -> 20
      [] status = "retreat" -> 15
      [] OTHER              -> 5

\* the power of agent i after its decay in the last tick, before any correction
StatedDecayed(i) ==
    LET p == tick_agents[i].power - StatedDecay(agents[i].status)
    IN  IF p < 100 THEN 100 ELSE p

RECURSIVE StatedDecayedSum(_)
StatedDecayedSum(k) == IF k = 0 THEN 0 ELSE StatedDecayed(k) + StatedDecayedSum(k - 1)

RECURSIVE StartSum(_)
StartSum(k) == IF k = 0 THEN 0 ELSE tick_agents[k].power + StartSum(k - 1)

\* three-band rule for the ratio rivals / own against the threshold t
StatedStance(rivals, own, t) ==
    IF rivals * 1000 < t * own THEN "attack"
    ELSE IF rivals * 10000 > 14 * t * own THEN "retreat"
    ELSE "maneuver"

\* j is visible from i in the population view: another agent, strictly nearer than 3.0
StatedVisible(view, i, j) ==
    /\ j # i
    /\ (view[j].position[1] - view[i].position[1]) * (view[j].position[1] - view[i].position[1])
       + (view[j].position[2] - view[i].position[2]) * (view[j].position[2] - view[i].position[2])
       < 3000 * 3000

\* ids (index - 1) of the agents visible from i, in agent order, among the first k
RECURSIVE StatedVisibleIds(_, _, _)
StatedVisibleIds(view, i, k) ==
    IF k = 0 THEN <<>>
    ELSE IF StatedVisible(view, i, k)
         THEN Append(StatedVisibleIds(view, i, k - 1), k - 1)
         ELSE StatedVisibleIds(view, i, k - 1)

RECURSIVE StatedRivalPower(_, _, _)
StatedRivalPower(view, i, k) ==
    IF k = 0 THEN 0
    ELSE (IF StatedVisible(view, i, k) THEN view[k].power ELSE 0)
         + StatedRivalPower(view, i, k - 1)

\* the stance the rule yields for agent i on the population view and threshold t
StatedStanceOn(view, i, t) ==
    IF StatedVisibleIds(view, i, Len(view)) = <<>> THEN "maneuver"
    ELSE StatedStance(StatedRivalPower(view, i, Len(view)), view[i].power, t)

\* the population as it stood at the start of the last tick
StartView == [j \in 1..N |-> [position |-> tick_agents[j].position,
                               power |-> tick_agents[j].power]]

\* the population as it stood when agent i took its turn in the last tick:
\* agents before i moved and decayed, agent i and the later ones untouched
TurnView(i) ==
    [j \in 1..N |->
        IF j < i THEN [position |-> agents[j].position, power |-> StatedDecayed(j)]
                 ELSE StartView[j]]

\* the population as it stands now
CurrentView == [j \in 1..N |-> [position |-> agents[j].position,
                                 power |-> agents[j].power]]

----------------------------------------------------------------------------
(* Properties *)

\* C1: power floor -- in every state, whatever the number of ticks and the
\* threshold, every agent's power is at least 0.1.
C1_PowerFloor == \A i \in 1..N : agents[i].power >= 100

\* C1 witness: a tick in which an agent's decay was cut off by the floor and
\* no correction raised it again.
C1_FloorClamps ==
    /\ AfterTick
    /\ \E i \in 1..N :
        /\ tick_agents[i].power - StatedDecay(agents[i].status) < 100
        /\ agents[i].power = 100

\* C2: position bounds -- in every state both coordinates of every agent's
\* position lie in [0, 10].
C2_PositionInBox ==
    \A i \in 1..N : \A c \in 1..2 :
        agents[i].position[c] >= 0 /\ agents[i].position[c] <= 10000

\* C2 witness: a tick in which the move of an agent left the box on the low
\* side and the move of an agent left it on the high side, and both were clamped.
C2_ClampActed ==
    /\ AfterTick
    /\ \E i, j \in 1..N :
        /\ RawMove([tick_agents[i] EXCEPT !.status = agents[i].status],
                   agents[i].vector, tick_draws[i])[1] < 0
        /\ agents[i].position[1] = 0
        /\ RawMove([tick_agents[j] EXCEPT !.status = agents[j].status],
                   agents[j].vector, tick_draws[j])[1] > 10000
        /\ agents[j].position[1] = 10000

\* C3: threat mapping -- an agent that was handed a non-empty rival set has
\* the stance of the band its ratio rivals / own falls in, for the threshold of
\* that tick: below t ATTACK, from t to 1.4 t (both included) MANEUVER, above
\* 1.4 t RETREAT; own is the agent's power at the start of the tick.
C3_ThreatMapping ==
    AfterTick =>
        \A i \in 1..N :
            visible_foes[i] # <<>> =>
                LET r == threat_level[i].rivals
                    o == threat_level[i].own
                    t == tick_threshold
                IN  /\ threat_level[i].computed
                    /\ o = tick_agents[i].power
                    /\ (r * 1000 < t * o => agents[i].status = "attack")
                    /\ (r * 1000 >= t * o /\ r * 10000 <= 14 * t * o
                            => agents[i].status = "maneuver")
                    /\ (r * 10000 > 14 * t * o => agents[i].status = "retreat")

\* C3 witness: an agent whose ratio was exactly 1.4 t, and chose MANEUVER.
C3_UpperBoundaryManeuver ==
    /\ AfterTick
    /\ \E i \in 1..N :
        /\ visible_foes[i] # <<>>
        /\ threat_level[i].rivals * 10000 = 14 * tick_threshold * threat_level[i].own
        /\ agents[i].status = "maneuver"

\* the ratio exactly t is reached as well, and gives MANEUVER
C3_LowerBoundaryManeuver ==
    /\ AfterTick
    /\ \E i \in 1..N :
        /\ visible_foes[i] # <<>>
        /\ threat_level[i].rivals * 1000 = tick_threshold * threat_level[i].own
        /\ agents[i].status = "maneuver"

\* C4: empty-rival fallback -- an agent that was handed an empty rival set has
\* stance MANEUVER, no threat ratio, and the vector of the defensive pattern:
\* the normalised random base direction plus a jitter within half the chaos
\* factor per coordinate, whatever its power and the threshold.
C4_EmptyRivalFallback ==
    AfterTick =>
        \A i \in 1..N :
            visible_foes[i] = <<>> =>
                LET base == Normalize(Uniform2(tick_draws[i].dir, -1000, 1000))
                IN  /\ agents[i].status = "maneuver"
                    /\ ~threat_level[i].computed
                    /\ \A c \in 1..2 :
                        /\ agents[i].vector[c] - base[c] >= -150
                        /\ agents[i].vector[c] - base[c] <= 150

\* C4 witness: two agents out of each other's sight, one of them with a
\* nonzero jitter on a nonzero base direction.
C4_FallbackTaken ==
    /\ AfterTick
    /\ N >= 2
    /\ \A i \in 1..N : visible_foes[i] = <<>> /\ agents[i].status = "maneuver"
    /\ \E i \in 1..N :
        LET base == Normalize(Uniform2(tick_draws[i].dir, -1000, 1000))
        IN  base # <<0, 0>> /\ agents[i].vector # base

\* C5: power decay -- after a tick without correction (the decayed powers sum
\* to 10.0 or more) every agent's power is max(0.1, pre-tick power - d), d by
\* the stance chosen in the tick, and is not above its pre-tick power.
C5_PowerDecay ==
    (AfterTick /\ StatedDecayedSum(N) >= 10000) =>
        \A i \in 1..N :
            /\ agents[i].power = StatedDecayed(i)
            /\ agents[i].power <= tick_agents[i].power

\* C5 witness: a tick without correction with an attacker that lost 0.02 and
\* a retreating agent that lost 0.015.
C5_DecayWithoutCorrection ==
    /\ AfterTick
    /\ StatedDecayedSum(N) >= 10000
    /\ \E i, j \in 1..N :
        /\ agents[i].status = "attack"
        /\ agents[i].power = tick_agents[i].power - 20
        /\ agents[j].status = "retreat"
        /\ agents[j].power = tick_agents[j].power - 15

\* C6: equilibrium trigger -- the correction is decided once per tick on the
\* sum of the decayed powers: below 10.0 every agent ends the tick 0.03 above
\* its decayed power, otherwise at its decayed power.
C6_EquilibriumTrigger ==
    AfterTick =>
        IF StatedDecayedSum(N) < 10000
        THEN \A i \in 1..N : agents[i].power = StatedDecayed(i) + 30
        ELSE \A i \in 1..N : agents[i].power = StatedDecayed(i)

\* C6 witness: a tick that began with total power 10.0 or more, fell below it
\* by the decay of this tick, and was corrected.
C6_CorrectedOnDecayedSum ==
    /\ AfterTick
    /\ N >= 2
    /\ StartSum(N) >= 10000
    /\ StatedDecayedSum(N) < 10000
    /\ \A i \in 1..N : agents[i].power = StatedDecayed(i) + 30

\* C7 as stated: after every tick every agent's stance is the one the rule
\* yields on the state after the tick (current positions, powers, threshold).
C7_StanceMatchesStateAfterTick ==
    AfterTick =>
        \A i \in 1..N :
            agents[i].status = StatedStanceOn(CurrentView, i, aggression_threshold)

\* C7 amended: after every tick every agent's stance is one of the three and
\* is the one the rule yields on the population as it stood at that agent's
\* turn in the tick, with the threshold of the tick.
C7_StanceMatchesTurnView ==
    /\ \A i \in 1..N : agents[i].status \in {"attack", "maneuver", "retreat"}
    /\ AfterTick =>
        \A i \in 1..N : agents[i].status = StatedStanceOn(TurnView(i), i, tick_threshold)

\* C7 witness: an agent whose stance of the tick is no longer the stance the
\* rule yields on the state after the tick.
C7_StanceStaleAfterTick ==
    /\ AfterTick
    /\ aggression_threshold = tick_threshold
    /\ \E i \in 1..N :
        /\ agents[i].status = StatedStanceOn(TurnView(i), i, tick_threshold)
        /\ agents[i].status # StatedStanceOn(CurrentView, i, aggression_threshold)

\* C8 as stated: every agent's rival set and threat ratio of the tick are
\* those of the population as it stood at the start of the tick.
C8_DecisionsOnStartSnapshot ==
    AfterTick =>
        \A i \in 1..N :
            /\ visible_foes[i] = StatedVisibleIds(StartView, i, N)
            /\ visible_foes[i] # <<>> =>
                threat_level[i].rivals = StatedRivalPower(StartView, i, N)

\* C8 amended: every agent's rival set and threat ratio of the tick are those
\* of the population as it stood at its turn: agents earlier in the order
\* already moved and decayed, the agent itself and the later ones as at the
\* start of the tick.
C8_DecisionsOnTurnView ==
    AfterTick =>
        \A i \in 1..N :
            /\ visible_foes[i] = StatedVisibleIds(TurnView(i), i, N)
            /\ visible_foes[i] # <<>> =>
                /\ threat_level[i].rivals = StatedRivalPower(TurnView(i), i, N)
                /\ threat_level[i].own = tick_agents[i].power

\* C8 witness: a later agent saw an earlier agent that was out of sight at
\* the start of the tick and moved into sight in its turn.
C8_SawUpdatedPosition ==
    /\ AfterTick
    /\ \E i \in 1..N :
        /\ StatedVisibleIds(StartView, i, N) = <<>>
        /\ visible_foes[i] # <<>>
        /\ visible_foes[i] = StatedVisibleIds(TurnView(i), i, N)

\* C9: tick counter -- time_step_count is 0 after construction and is in
\* every state the number of time_step() calls that have returned.
C9_TickCounter == time_step_count = completed_calls

\* C9 witness: two ticks with a change of the threshold in between.
C9_TwoTicksCounted ==
    /\ completed_calls = 2
    /\ time_step_count = 2
    /\ tick_threshold # 1000

\* C10 as stated: no battlefield without agents ever runs a tick
\* (constructing it ends in a configuration error).
C10_ZeroAgentsFailFast == ~(N = 0 /\ completed_calls > 0)

\* C11: threshold freshness -- every step that completes a tick evaluates the
\* stance of every agent with rivals against the one value aggression_threshold
\* holds when the tick starts, that is the value of the last update_threshold
\* (or the initial 1.0 when there was none).
C11_ThresholdFreshness ==
    [][completed_calls' # completed_calls =>
        \A i \in 1..N :
            visible_foes'[i] # <<>> =>
                agents'[i].status = StatedStance(threat_level'[i].rivals,
                                                 threat_level'[i].own,
                                                 aggression_threshold)]_vars

\* C11 witness: a tick after update_threshold gave a value other than 1.0, in
\* which an agent has a stance that the initial threshold would not have given.
C11_UpdatedThresholdUsed ==
    /\ AfterTick
    /\ tick_threshold # 1000
    /\ \E i \in 1..N :
        /\ visible_foes[i] # <<>>
        /\ agents[i].status = StatedStance(threat_level[i].rivals,
                                           threat_level[i].own, tick_threshold)
        /\ agents[i].status # StatedStance(threat_level[i].rivals,
                                           threat_level[i].own, 1000)

\* C13 as stated: after every tick every agent's power is strictly above 0.1.
C13_PowerAboveFloor ==
    AfterTick => \A i \in 1..N : agents[i].power > 100

\* C13 amended: after every tick every agent's power is in [0.1, +infinity);
\* it is 0.1 itself only after a tick without correction in which the floor cut
\* the decay off, and it is at least 0.13 after a tick with correction.
C13_PowerDomainClosed ==
    AfterTick =>
        \A i \in 1..N :
            /\ agents[i].power >= 100
            /\ agents[i].power = 100 =>
                /\ StatedDecayedSum(N) >= 10000
                /\ tick_agents[i].power - StatedDecay(agents[i].status) <= 100
            /\ StatedDecayedSum(N) < 10000 => agents[i].power >= 130

\* C13 witness: after a tick an agent whose decay the floor cut off is at 0.1
\* exactly, next to an agent above 0.1.
C13_PowerAtFloorAfterTick ==
    /\ AfterTick
    /\ \E i, j \in 1..N :
        /\ agents[i].power = 100
        /\ tick_agents[i].power - StatedDecay(agents[i].status) < 100
        /\ agents[j].power > 100

\* squared distance between agents i and j in the population view
StatedDistance2(view, i, j) ==
    (view[j].position[1] - view[i].position[1]) * (view[j].position[1] - view[i].position[1])
    + (view[j].position[2] - view[i].position[2]) * (view[j].position[2] - view[i].position[2])

\* the ids in the list of rivals handed to agent i in the last tick
SeenIds(i) == {visible_foes[i][k] : k \in 1..Len(visible_foes[i])}

\* C14: detection -- the rivals handed to agent i are exactly the agents with
\* another id whose distance to i, on the positions current at i's turn, is
\* strictly below 3.0; each is listed once; i is never among them and an agent
\* at distance 3.0 exactly is not.
C14_Detection ==
    AfterTick =>
        \A i \in 1..N :
            /\ Cardinality(SeenIds(i)) = Len(visible_foes[i])
            /\ (i - 1) \notin SeenIds(i)
            /\ \A j \in 1..N :
                /\ (j - 1) \in SeenIds(i) <=>
                     (j # i /\ StatedDistance2(TurnView(i), i, j) < 9000000)
                /\ StatedDistance2(TurnView(i), i, j) = 9000000 => (j - 1) \notin SeenIds(i)

\* C14 witness: a tick in which one agent had a rival at distance 3.0 exactly
\* and did not see it, and another agent saw a rival nearer than 3.0.
C14_RadiusExcluded ==
    /\ AfterTick
    /\ \E i, j \in 1..N :
        /\ j # i
        /\ StatedDistance2(TurnView(i), i, j) = 9000000
        /\ visible_foes[i] = <<>>
        /\ visible_foes[j] = <<i - 1>>

\* the policy jitter of agent i in the last tick, for the jitter bound c
StatedJitter(i, c) == Uniform2(tick_draws[i].jit, -c, c)

\* the vector of agent i without its policy jitter
StatedBase(i, c) == VecSub(agents[i].vector, StatedJitter(i, c))

\* the indices of the rivals agent i saw at its turn
StatedRivals(i) ==
    {j \in 1..N : j # i /\ StatedDistance2(TurnView(i), i, j) < 9000000}

\* the attack target of agent i: the first rival, in agent order, of least power
StatedTarget(i) ==
    CHOOSE j \in StatedRivals(i) :
        \A k \in StatedRivals(i) :
            \/ TurnView(i)[j].power < TurnView(i)[k].power
            \/ TurnView(i)[j].power = TurnView(i)[k].power /\ j <= k

\* the scenario: A with power 1.0 at (0,0), B with power 0.4 at (1,0), threshold 1.0
StatedScenario ==
    /\ N = 2
    /\ tick_threshold = 1000
    /\ tick_agents[1].power = 1000 /\ tick_agents[1].position = <<0, 0>>
    /\ tick_agents[2].power = 400  /\ tick_agents[2].position = <<1000, 0>>

\* C15: attack policy -- an agent that chose ATTACK has the vector
\* normalize(target - own position) + jitter, the target being its first
\* visible rival of least power and the jitter its draw in [-0.3, 0.3] per
\* coordinate; in the scenario A has stance ATTACK and base direction (1, 0).
C15_AttackPolicy ==
    AfterTick =>
        /\ \A i \in 1..N :
            agents[i].status = "attack" =>
                /\ StatedRivals(i) # {}
                /\ StatedBase(i, 300) =
                     Normalize(VecSub(TurnView(i)[StatedTarget(i)].position,
                                      tick_agents[i].position))
                /\ \A c \in 1..2 : StatedJitter(i, 300)[c] \in -300..300
        /\ StatedScenario =>
            /\ agents[1].status = "attack"
            /\ StatedBase(1, 300) = <<1000, 0>>

\* C15 witness: an attacker with two rivals of equal least power at different
\* places, aiming at the first of them.
C15_AttackFirstOfEqual ==
    /\ AfterTick
    /\ \E i, j, k \in 1..N :
        /\ agents[i].status = "attack"
        /\ j < k /\ {j, k} \subseteq StatedRivals(i)
        /\ TurnView(i)[j].power = TurnView(i)[k].power
        /\ TurnView(i)[j].position # TurnView(i)[k].position
        /\ StatedTarget(i) = j
        /\ StatedBase(i, 300) # <<0, 0>>

\* C15: the scenario itself is reached
C15_ScenarioAttack ==
    AfterTick /\ StatedScenario /\ agents[1].status = "attack"

\* sum of the positions of the rivals of agent i among the first k agents
RECURSIVE StatedRivalPositionSum(_, _, _)
StatedRivalPositionSum(view, i, k) ==
    IF k = 0 THEN <<0, 0>>
    ELSE LET rest == StatedRivalPositionSum(view, i, k - 1)
         IN  IF k # i /\ StatedDistance2(view, i, k) < 9000000
             THEN <<rest[1] + view[k].position[1], rest[2] + view[k].position[2]>>
             ELSE rest

\* the arithmetic mean of the positions of the rivals agent i saw at its turn
StatedCentroid(i) ==
    LET total == StatedRivalPositionSum(TurnView(i), i, N)
        count == Cardinality(StatedRivals(i))
    IN  <<total[1] \div count, total[2] \div count>>

\* C16: escape policy -- an agent that chose RETREAT has the vector
\* normalize(own position - centroid of its visible rivals) + jitter; in the
\* scenario B has stance RETREAT and a base direction pointing away from A.
C16_EscapePolicy ==
    AfterTick =>
        /\ \A i \in 1..N :
            agents[i].status = "retreat" =>
                /\ StatedRivals(i) # {}
                /\ StatedBase(i, 300) =
                     Normalize(VecSub(tick_agents[i].position, StatedCentroid(i)))
        /\ StatedScenario =>
            /\ agents[2].status = "retreat"
            /\ StatedBase(2, 300)[1] > 0
            /\ StatedBase(2, 300)[1] * (tick_agents[2].position[1] - agents[1].position[1])
               + StatedBase(2, 300)[2] * (tick_agents[2].position[2] - agents[1].position[2])
               > 0

\* C16 witness: an agent retreats from two rivals at different places, along
\* the line from their centroid, which is the place of neither
C16_RetreatFromCentroid ==
    /\ AfterTick
    /\ \E i \in 1..N :
        /\ agents[i].status = "retreat"
        /\ Cardinality(StatedRivals(i)) = 2
        /\ \A j \in StatedRivals(i) : TurnView(i)[j].position # StatedCentroid(i)
        /\ StatedBase(i, 300) # <<0, 0>>
        /\ StatedBase(i, 300) =
             Normalize(VecSub(tick_agents[i].position, StatedCentroid(i)))

\* C16: the scenario is reached with B retreating
C16_ScenarioRetreat ==
    AfterTick /\ StatedScenario /\ agents[2].status = "retreat"

\* agent i attacked a rival standing on its own position
StatedAttackOnSpot(i) ==
    /\ agents[i].status = "attack"
    /\ StatedRivals(i) # {}
    /\ TurnView(i)[StatedTarget(i)].position = tick_agents[i].position

\* agent i retreated from rivals whose centroid is its own position
StatedRetreatOnSpot(i) ==
    /\ agents[i].status = "retreat"
    /\ StatedRivals(i) # {}
    /\ StatedCentroid(i) = tick_agents[i].position

\* agent i manoeuvred on a drawn direction of zero length
StatedManeuverOnSpot(i) ==
    /\ agents[i].status = "maneuver"
    /\ -1000 + (2000 * tick_draws[i].dir[1]) \div 1000 = 0
    /\ -1000 + (2000 * tick_draws[i].dir[2]) \div 1000 = 0

\* C17: degenerate direction -- when the pre-jitter direction has length zero
\* (target on the agent's own position, centroid on the agent's own position,
\* or a drawn direction of zero), the tick completes and the vector is the
\* jitter alone.
C17_DegenerateDirection ==
    AfterTick =>
        \A i \in 1..N :
            /\ StatedAttackOnSpot(i) => agents[i].vector = StatedJitter(i, 300)
            /\ StatedRetreatOnSpot(i) => agents[i].vector = StatedJitter(i, 300)
            /\ StatedManeuverOnSpot(i) => agents[i].vector = StatedJitter(i, 150)

\* C17 witness: in one tick an agent attacks a rival on its own spot and another
\* retreats from a centroid on its own spot with a jitter that is not zero
C17_ZeroLengthHandled ==
    /\ AfterTick
    /\ \E i, j \in 1..N :
        /\ StatedAttackOnSpot(i)
        /\ StatedRetreatOnSpot(j)
        /\ agents[j].vector # <<0, 0>>
        /\ agents[j].vector = StatedJitter(j, 300)

\* C17: a manoeuvre on a zero direction is reached as well
C17_ZeroManeuver ==
    AfterTick /\ \E i \in 1..N : StatedManeuverOnSpot(i) /\ agents[i].vector = <<0, 0>>

\* previous stances and vectors an agent can carry into a tick
StatedPrior ==
    { [status |-> "maneuver", vector |-> <<0, 0>>],
      [status |-> "attack",   vector |-> <<1299, -1300>>],
      [status |-> "retreat",  vector |-> <<-1300, 1000>>] }

\* the battlefield the last tick started from, with the previous stance and
\* vector of each agent i replaced by prior[i]
StatedTwin(prior) ==
    [i \in 1..N |-> [tick_agents[i] EXCEPT !.status = prior[i].status,
                                           !.vector = prior[i].vector]]

\* C18: memoryless stance -- a battlefield that differs from the one the last
\* tick started from only in the agents' previous stance and vector, stepped
\* with the same threshold and the same draws, ends the tick with the same
\* stance, vector, position and power for every agent.
C18_MemorylessStance ==
    AfterTick =>
        \A prior \in [1..N -> StatedPrior] :
            RebalanceStrategicEquilibrium(
                AgentLoop(StartRun(StatedTwin(prior)), 1, tick_draws, tick_threshold).agents)
            = agents

\* C18 witness: a tick started by an agent that carried an attack stance and
\* its vector from the tick before, and in which it chose another stance, while
\* a twin that carried a retreat stance ends the tick in the same state
C18_PriorStanceOverwritten ==
    /\ AfterTick
    /\ \E i \in 1..N :
        /\ tick_agents[i].status = "attack"
        /\ tick_agents[i].vector # <<0, 0>>
        /\ agents[i].status # "attack"
        /\ RebalanceStrategicEquilibrium(
               AgentLoop(StartRun([tick_agents EXCEPT ![i].status = "retreat",
                                                      ![i].vector = <<-1300, 1000>>]),
                         1, tick_draws, tick_threshold).agents)
           = agents

\* the last tick applied the equilibrium correction: the total power after the
\* decay was below 10 and every agent gained 0.03
StatedCorrected ==
    /\ AfterTick
    /\ StatedDecayedSum(N) < 10000
    /\ \A i \in 1..N : agents[i].power = StatedDecayed(i) + 30

\* C19: equilibrium liveness -- with fewer than 100 agents, under ticks without
\* end and any threshold values, a tick that applies the equilibrium correction
\* occurs again and again.
C19_EquilibriumLiveness == []<>StatedCorrected

\* C19 witness: a tick applies the correction after a tick that could not, the
\* total having been 10 or more
C19_CorrectedAfterWait ==
    /\ StatedCorrected
    /\ N = 2
    /\ completed_calls = 2
    /\ tick_agents[1].power + tick_agents[2].power >= 10000

\* the intensity an update gives a relation of intensity x: 3.7 x (1 - x),
\* kept between 0 and 1
StatedIntensity(x) ==
    IF (3700 * x * (1000 - x)) \div 1000000 < 0 THEN 0
    ELSE IF (3700 * x * (1000 - x)) \div 1000000 > 1000 THEN 1000
    ELSE (3700 * x * (1000 - x)) \div 1000000

\* C20: relation type transitions -- an update leaves the set of edges as it
\* is; the type of an edge changes only from ANTAGONISM to DEPENDENCE, and does
\* so exactly when the new clamped intensity computed from the edge's
\* intensity before the update is above 0.9; an edge of type DEPENDENCE or
\* TRANSFORMATION keeps its type.
C20_TypeTransitions ==
    [][/\ DOMAIN relations' = DOMAIN relations
       /\ \A e \in DOMAIN relations :
            /\ relations'[e].type # relations[e].type =>
                 /\ relations[e].type = "antagonism"
                 /\ relations'[e].type = "dependence"
            /\ (relations[e].type = "antagonism"
                /\ StatedIntensity(relations[e].intensity) > 900)
                  <=> (relations[e].type = "antagonism"
                       /\ relations'[e].type = "dependence")
            /\ relations[e].type \in {"dependence", "transformation"} =>
                 relations'[e].type = relations[e].type]_vars

\* C20 witness: an update turned an ANTAGONISM edge into DEPENDENCE and left a
\* TRANSFORMATION edge of the same new intensity as it was
C20_AntagonismTurned ==
    \E e, f \in DOMAIN relations :
        /\ prior_relations[e].type = "antagonism"
        /\ relations[e].type = "dependence"
        /\ StatedIntensity(prior_relations[e].intensity) > 900
        /\ prior_relations[f].type = "transformation"
        /\ relations[f].type = "transformation"
        /\ relations[f].intensity > 900

====
